---------------------------- MODULE Spec2Model ----------------------------
(***************************************************************************)
(* A model of the evm-asm front end: tokenize (src/src/tokenizer.rs),      *)
(* parse (src/src/parser.rs) and generate (src/src/codegen.rs).            *)
(*                                                                         *)
(* Source text is a sequence of characters, each character a one-character *)
(* string.  Indices i into the text are 0-based as in the Rust code; At    *)
(* reads chars[i].                                                         *)
(***************************************************************************)
EXTENDS Integers, Sequences, FiniteSets, TLC

VARIABLES
    chars,    \* tokenize: the source text (char_str.chars().collect())
    pc,       \* where the pipeline stands
    lex,      \* tokenize: its locals [i, line, col, tokens]
    lexed,    \* tokenize: its return value, Result<Vec<Token>, String>
    parsed,   \* parse: its return value, with the cursor's history
    buf       \* generate: the byte buffer it returns

vars == <<chars, pc, lex, lexed, parsed, buf>>

(***************************************************************************)
(* Characters                                                              *)
(***************************************************************************)
CR == "\r"
LF == "\n"
QUOTE == "\""

Digits == {"0", "1", "2", "3", "4", "5", "6", "7", "8", "9"}

\* char::is_whitespace on the characters the model draws from
WhiteSpace == {" ", "\t", "\n", "\r", "\f"}

is_ascii_digit(c) == c \in Digits

is_whitespace(c) == c \in WhiteSpace

At(cs, k) == cs[k + 1]

(***************************************************************************)
(* Tokens                                                                  *)
(***************************************************************************)
\* TokenType: kind is the variant; text the payload of Number and String;
\* val the payload of Boolean
TT(kind) == [kind |-> kind, text |-> <<>>, val |-> FALSE]

TTNumber(text) == [kind |-> "Number", text |-> text, val |-> FALSE]

TTString(text) == [kind |-> "String", text |-> text, val |-> FALSE]

TTBoolean(b) == [kind |-> "Boolean", text |-> <<>>, val |-> b]

Loc(l, c) == [line |-> l, col |-> c]

Token(typ, loc) == [typ |-> typ, loc |-> loc]

token_map == [c \in {"[", "]", "{", "}"} |->
    CASE c = "[" -> "LeftSquare"
      [] c = "]" -> "RightSquare"
      [] c = "{" -> "LeftCurly"
      [] c = "}" -> "RightCurly"]

op_words == <<
    << <<"p","u","s","h">>, "Push" >>,
    << <<"d","u","p">>, "Dup" >>,
    << <<"s","w","a","p">>, "Swap" >>,
    << <<"i","l","o","a","d">>, "ILoad" >>,
    << <<"l","o","a","d">>, "Load" >>,
    << <<"d","r","o","p">>, "Drop" >>,
    << <<"q","u","e","r","y">>, "Query" >>,
    << <<"i","n","f","o">>, "Info" >>,
    << <<"e","a","c","h">>, "Each" >>,
    << <<"r","e","d","u","c","e">>, "Reduce" >>,
    << <<"r","e","v","e","r","s","e">>, "Reverse" >>,
    << <<"m","a","p">>, "Map" >>,
    << <<"f","i","l","t","e","r">>, "Filter" >>,
    << <<"c","a","l","l">>, "Call" >>,
    << <<"t","o","s","t","r">>, "ToStr" >>,
    << <<"t","o","n","u","m">>, "ToNum" >>,
    << <<"+">>, "Add" >>,
    << <<"-">>, "Sub" >>,
    << <<"*">>, "Mul" >>,
    << <<"/">>, "Div" >>,
    << <<"%">>, "Mod" >>,
    << <<"=">>, "Eq" >>,
    << <<"!","=">>, "NotEq" >>,
    << <<">">>, "Greater" >>,
    << <<">","=">>, "GreaterEq" >>,
    << <<"<">>, "Less" >>,
    << <<"<","=">>, "LessEq" >>,
    << <<"a","n","d">>, "And" >>,
    << <<"o","r">>, "Or" >>,
    << <<"n","o","t">>, "Not" >>,
    << <<"c","o","n","c","a","t">>, "Concat" >>,
    << <<"m","a","t","c","h">>, "Match" >>,
    << <<"s","p","l","i","t">>, "Split" >>,
    << <<"i","o","t","a">>, "Iota" >> >>

op_keys == {op_words[k][1] : k \in DOMAIN op_words}

op_map == [w \in op_keys |->
    op_words[CHOOSE k \in DOMAIN op_words : op_words[k][1] = w][2]]

(***************************************************************************)
(* tokenize                                                                *)
(***************************************************************************)
NoErr == [msg |-> "", loc |-> Loc(0, 0)]

Ok_tokens(toks) == [ok |-> TRUE, tokens |-> toks, err |-> NoErr]

Err_tokens(msg, loc) == [ok |-> FALSE, tokens |-> <<>>, err |-> [msg |-> msg, loc |-> loc]]

\* the shebang check: the index the main loop starts from
shebang(cs, k) ==
    LET RECURSIVE skip(_)
        skip(j) == IF j < Len(cs) /\ At(cs, j) \notin {CR, LF} THEN skip(j + 1) ELSE j
    IN  IF (Len(cs) >= 2) /\ (At(cs, 0) = "#") /\ (At(cs, 1) = "!") THEN skip(k) ELSE k

\* mutant: the comment ends at LF only
scan_comment_lf_only(cs, k) ==
    LET RECURSIVE skip(_)
        skip(j) == IF j < Len(cs)
                   THEN IF At(cs, j) = LF THEN j - 1 ELSE skip(j + 1)
                   ELSE j
    IN  skip(k + 1)

\* `;`: i += 1, then consume until a newline, stepping back onto the
\* character before it
scan_comment(cs, k) ==
    LET RECURSIVE skip(_)
        skip(j) == IF j < Len(cs)
                   THEN IF At(cs, j) \in {CR, LF} THEN j - 1 ELSE skip(j + 1)
                   ELSE j
    IN  skip(k + 1)

\* the number loops: st = [i, col, buffer]; contiguous digits and, while
\* found_dot is false, one `.`
RECURSIVE scan_number(_, _, _)
scan_number(cs, st, found_dot) ==
    IF st.i + 1 < Len(cs)
    THEN LET c == At(cs, st.i + 1)
             nx == [i |-> st.i + 1, col |-> st.col + 1, buffer |-> Append(st.buffer, c)]
         IN  IF is_ascii_digit(c) THEN scan_number(cs, nx, found_dot)
             ELSE IF (c = ".") /\ ~found_dot THEN scan_number(cs, nx, TRUE)
             ELSE st
    ELSE st

\* the loop of the `.` branch: contiguous digits only
RECURSIVE scan_fraction(_, _)
scan_fraction(cs, st) ==
    IF st.i + 1 < Len(cs)
    THEN LET c == At(cs, st.i + 1)
             nx == [i |-> st.i + 1, col |-> st.col + 1, buffer |-> Append(st.buffer, c)]
         IN  IF is_ascii_digit(c) THEN scan_fraction(cs, nx) ELSE st
    ELSE st

\* the word loops: up to whitespace, `"` or a bracket
RECURSIVE scan_word(_, _)
scan_word(cs, st) ==
    IF (st.i + 1 < Len(cs)) /\ ~is_whitespace(At(cs, st.i + 1))
       /\ (At(cs, st.i + 1) # QUOTE) /\ (At(cs, st.i + 1) \notin DOMAIN token_map)
    THEN scan_word(cs, [i |-> st.i + 1, col |-> st.col + 1,
                        buffer |-> Append(st.buffer, At(cs, st.i + 1))])
    ELSE st

\* the string loop: up to the character before the next `"`
RECURSIVE scan_string(_, _)
scan_string(cs, st) ==
    IF (st.i + 1 < Len(cs)) /\ (At(cs, st.i + 1) # QUOTE)
    THEN scan_string(cs, [i |-> st.i + 1, col |-> st.col + 1,
                          buffer |-> Append(st.buffer, At(cs, st.i + 1))])
    ELSE st

scan0(s, buffer) == [i |-> s.i, col |-> s.col, buffer |-> buffer]

br_cr(cs, s) ==
    [s EXCEPT !.line = @ + 1, !.col = 0,
              !.i = IF (s.i + 1 < Len(cs)) /\ At(cs, s.i + 1) = LF THEN s.i + 1 ELSE s.i]

br_lf(cs, s) == [s EXCEPT !.line = @ + 1, !.col = 0]

br_comment(cs, s) == [s EXCEPT !.i = scan_comment(cs, s.i)]

br_space(cs, s) == s

br_bracket(cs, s) ==
    [s EXCEPT !.tokens = Append(@, Token(TT(token_map[At(cs, s.i)]), Loc(s.line, s.col)))]

emit_number(s, st) ==
    [s EXCEPT !.i = st.i, !.col = st.col,
              !.tokens = Append(@, Token(TTNumber(st.buffer), Loc(s.line, s.col)))]

emit_word(s, st) ==
    [s EXCEPT !.i = st.i, !.col = st.col,
              !.tokens = IF st.buffer \in DOMAIN op_map
                         THEN Append(@, Token(TT(op_map[st.buffer]), Loc(s.line, s.col)))
                         ELSE @]

br_digit(cs, s) == emit_number(s, scan_number(cs, scan0(s, <<At(cs, s.i)>>), FALSE))

br_dot(cs, s) == emit_number(s, scan_fraction(cs, scan0(s, <<At(cs, s.i)>>)))

\* mutant: only a digit after the `-` starts a number
minus_starts_number_digit_only(cs, k) ==
    (k + 1 < Len(cs)) /\ is_ascii_digit(At(cs, k + 1))

minus_starts_number(cs, k) ==
    (k + 1 < Len(cs)) /\ ((At(cs, k + 1) = ".") \/ is_ascii_digit(At(cs, k + 1)))

br_minus(cs, s) ==
    IF minus_starts_number(cs, s.i)
    THEN emit_number(s, scan_number(cs, scan0(s, <<At(cs, s.i)>>), FALSE))
    ELSE emit_word(s, scan_word(cs, scan0(s, <<At(cs, s.i)>>)))

\* mutant: a closing quote at the very end of the input is missed
string_unterminated_early(cs, k) == k + 1 >= Len(cs)

string_unterminated(cs, k) == k = Len(cs)

br_string(cs, s) ==
    LET st == scan_string(cs, scan0(s, <<>>))
    IN  IF string_unterminated(cs, st.i + 1)
        THEN [s EXCEPT !.i = st.i + 1, !.col = st.col + 1,
                       !.err = [msg |-> "Unterminated string", loc |-> Loc(s.line, s.col)]]
        ELSE [s EXCEPT !.i = st.i + 1, !.col = st.col + 1,
                       !.tokens = Append(@, Token(TTString(st.buffer), Loc(s.line, s.col)))]

br_word(cs, s) == emit_word(s, scan_word(cs, scan0(s, <<At(cs, s.i)>>)))

\* the if/else-if chain of the main loop: which branch takes character c
lex_branch(c) ==
    IF c = CR THEN "cr"
    ELSE IF c = LF THEN "lf"
    ELSE IF c = ";" THEN "comment"
    ELSE IF is_whitespace(c) THEN "space"
    ELSE IF c \in DOMAIN token_map THEN "bracket"
    ELSE IF is_ascii_digit(c) THEN "digit"
    ELSE IF c = "." THEN "dot"
    ELSE IF c = "-" THEN "minus"
    ELSE IF c = QUOTE THEN "string"
    ELSE "word"

\* one iteration of the main loop, with its closing i += 1 (not reached
\* when the string branch returns the error)
lex_iter(cs, s) ==
    LET b == lex_branch(At(cs, s.i))
        t == CASE b = "cr" -> br_cr(cs, s)
               [] b = "lf" -> br_lf(cs, s)
               [] b = "comment" -> br_comment(cs, s)
               [] b = "space" -> br_space(cs, s)
               [] b = "bracket" -> br_bracket(cs, s)
               [] b = "digit" -> br_digit(cs, s)
               [] b = "dot" -> br_dot(cs, s)
               [] b = "minus" -> br_minus(cs, s)
               [] b = "string" -> br_string(cs, s)
               [] OTHER -> br_word(cs, s)
    IN  IF t.err # NoErr THEN t ELSE [t EXCEPT !.i = @ + 1]

lex_start == [i |-> 0, line |-> 1, col |-> 1, tokens |-> <<>>, err |-> NoErr]

lex_finish(s) == Ok_tokens(Append(s.tokens, Token(TT("Eof"), Loc(s.line, s.col))))

RECURSIVE lex_loop(_, _)
lex_loop(cs, s) ==
    IF s.err # NoErr THEN Err_tokens(s.err.msg, s.err.loc)
    ELSE IF s.i < Len(cs) THEN lex_loop(cs, lex_iter(cs, s))
    ELSE lex_finish(s)

tokenize(cs) == lex_loop(cs, [lex_start EXCEPT !.i = shebang(cs, 0)])

(***************************************************************************)
(* f64.  A value is the decimal (-1)^neg * num / 10^scale, kept normal     *)
(* (no trailing zero in the fraction).  The literals the model draws have  *)
(* few digits, far below the 15 significant digits up to which distinct    *)
(* decimals are distinct doubles, so comparing, truncating and casting     *)
(* these decimals agrees with the doubles they round to.                   *)
(***************************************************************************)
DigitVal(c) == CHOOSE d \in 0..9 : <<"0", "1", "2", "3", "4", "5", "6", "7", "8", "9">>[d + 1] = c

RECURSIVE Pow10(_)
Pow10(k) == IF k = 0 THEN 1 ELSE 10 * Pow10(k - 1)

RECURSIVE f64_normal(_)
f64_normal(x) ==
    IF x.scale > 0 /\ x.num % 10 = 0
    THEN f64_normal([x EXCEPT !.num = @ \div 10, !.scale = @ - 1])
    ELSE x

F64(neg, num, scale) == f64_normal([neg |-> neg, num |-> num, scale |-> scale])

\* str::parse::<f64> on texts of digits, `.` and `-`: an optional sign, then
\* digits with at most one `.` and at least one digit
parse_f64(text) ==
    LET neg  == Len(text) > 0 /\ text[1] = "-"
        body == IF neg \/ (Len(text) > 0 /\ text[1] = "+") THEN Tail(text) ELSE text
        dots == {k \in DOMAIN body : body[k] = "."}
        digs == {k \in DOMAIN body : body[k] \in Digits}
        RECURSIVE digits(_, _)
        digits(k, acc) == IF k > Len(body) THEN acc
                          ELSE IF body[k] = "." THEN digits(k + 1, acc)
                          ELSE digits(k + 1, 10 * acc + DigitVal(body[k]))
        dot  == IF dots = {} THEN Len(body) ELSE CHOOSE k \in dots : TRUE
    IN  IF (dots \cup digs = DOMAIN body) /\ (Cardinality(dots) <= 1) /\ (digs # {})
        THEN [ok |-> TRUE, val |-> F64(neg, digits(1, 0), Len(body) - dot)]
        ELSE [ok |-> FALSE, val |-> F64(FALSE, 0, 0)]

\* f64::trunc
f64_trunc(x) == F64(x.neg, x.num \div Pow10(x.scale), 0)

\* f64 == f64: -0.0 equals 0.0
f64_eq(x, y) == (x.num = 0 /\ y.num = 0) \/ (x = y)

\* `as u64`: the saturating cast; a negative value gives 0
f64_as_u64(x) == IF x.neg THEN 0 ELSE x.num \div Pow10(x.scale)

(***************************************************************************)
(* Value and Command                                                       *)
(***************************************************************************)
VNil == [v |-> "Nil"]

VNumber(x) == [v |-> "Number", num |-> x]

VString(str) == [v |-> "String", str |-> str]

VBoolean(b) == [v |-> "Boolean", b |-> b]

VFunction(commands) == [v |-> "Function", commands |-> commands]

VArray(values) == [v |-> "Array", values |-> values]

Push(value) == [c |-> "Push", value |-> value]

ILoad(reg, value) == [c |-> "ILoad", reg |-> reg, value |-> value]

Op(name) == [c |-> name]

\* the printed keyword of each Command variant, in the order of the match
command_names == <<
    << "Push", <<"p","u","s","h">> >>,
    << "Dup", <<"d","u","p">> >>,
    << "Swap", <<"s","w","a","p">> >>,
    << "ILoad", <<"i","l","o","a","d">> >>,
    << "Load", <<"l","o","a","d">> >>,
    << "Drop", <<"d","r","o","p">> >>,
    << "Query", <<"q","u","e","r","y">> >>,
    << "Info", <<"i","n","f","o">> >>,
    << "If", <<"i","f">> >>,
    << "Each", <<"e","a","c","h">> >>,
    << "Reduce", <<"r","e","d","u","c","e">> >>,
    << "Reverse", <<"r","e","v","e","r","s","e">> >>,
    << "Map", <<"m","a","p">> >>,
    << "Filter", <<"f","i","l","t","e","r">> >>,
    << "Call", <<"c","a","l","l">> >>,
    << "ToStr", <<"t","o","s","t","r">> >>,
    << "ToNum", <<"t","o","n","u","m">> >>,
    << "Add", <<"+">> >>,
    << "Sub", <<"-">> >>,
    << "Mul", <<"*">> >>,
    << "Div", <<"/">> >>,
    << "Mod", <<"%">> >>,
    << "Eq", <<"=">> >>,
    << "NotEq", <<"!","=">> >>,
    << "Greater", <<">">> >>,
    << "GreaterEq", <<">","=">> >>,
    << "Less", <<"<">> >>,
    << "LessEq", <<"<","=">> >>,
    << "And", <<"a","n","d">> >>,
    << "Or", <<"o","r">> >>,
    << "Not", <<"n","o","t">> >>,
    << "Concat", <<"c","o","n","c","a","t">> >>,
    << "Match", <<"m","a","t","c","h">> >>,
    << "Split", <<"s","p","l","i","t">> >>,
    << "Iota", <<"i","o","t","a">> >> >>

get_command_name(command) ==
    LET k == CHOOSE j \in DOMAIN command_names : command_names[j][1] = command.c
    IN  command_names[k][2]

(***************************************************************************)
(* parse.  State is [ctok, trace, panic]: ctok the cursor, trace the       *)
(* history of the cursor (one entry per next and rewind), panic whether an *)
(* index left the token vector.                                            *)
(***************************************************************************)
NoTok == Token(TT("(none)"), Loc(0, 0))

PErr(msg, tok) == [msg |-> msg, typ |-> tok.typ, loc |-> tok.loc]

NoPErr == PErr("", NoTok)

state0 == [ctok |-> 0, trace |-> <<>>, panic |-> FALSE]

\* tokens[ctok - 1], ctok counted from 0 as in the code
tok_at(toks, k) == IF k \in DOMAIN toks THEN toks[k] ELSE NoTok

next(toks, st) ==
    LET c == st.ctok + 1
    IN  [st  |-> [ctok |-> c, trace |-> Append(st.trace, [op |-> "next", ctok |-> c]),
                  panic |-> st.panic \/ c \notin DOMAIN toks],
         tok |-> tok_at(toks, c)]

last(toks, st) == tok_at(toks, st.ctok)

rewind(st, amount) ==
    [st EXCEPT !.ctok = @ - amount,
               !.trace = Append(@, [op |-> "rewind", ctok |-> st.ctok - amount]),
               !.panic = @ \/ st.ctok < amount]

\* mutant: a failed lookahead is not taken back
accept_no_rewind(toks, st, typ) ==
    LET n == next(toks, st)
    IN  [st |-> n.st, ok |-> n.tok.typ = typ]

accept(toks, st, typ) ==
    LET n == next(toks, st)
    IN  IF n.tok.typ = typ THEN [st |-> n.st, ok |-> TRUE]
        ELSE [st |-> rewind(n.st, 1), ok |-> FALSE]

accept_str(toks, st) ==
    LET n == next(toks, st)
    IN  IF n.tok.typ.kind = "String" THEN [st |-> n.st, ok |-> TRUE]
        ELSE [st |-> rewind(n.st, 1), ok |-> FALSE]

accept_num(toks, st) ==
    LET n == next(toks, st)
    IN  IF n.tok.typ.kind = "Number" THEN [st |-> n.st, ok |-> TRUE]
        ELSE [st |-> rewind(n.st, 1), ok |-> FALSE]

accept_bool(toks, st) ==
    LET n == next(toks, st)
    IN  IF n.tok.typ.kind = "Boolean" THEN [st |-> n.st, ok |-> TRUE]
        ELSE [st |-> rewind(n.st, 1), ok |-> FALSE]

\* the token the "expected number" error reports: last(state) after the rewind
expect_num_reported(toks, st) == last(toks, st)

expect_num(toks, st) ==
    LET n == next(toks, st)
    IN  IF n.tok.typ.kind = "Number"
        THEN LET p == parse_f64(n.tok.typ.text)
             IN  IF p.ok THEN [st |-> n.st, ok |-> TRUE, val |-> p.val, err |-> NoPErr]
                 ELSE [st |-> n.st, ok |-> FALSE, val |-> p.val,
                       err |-> PErr("Failed to parse number", NoTok)]
        ELSE LET r == rewind(n.st, 1)
             IN  [st |-> r, ok |-> FALSE, val |-> F64(FALSE, 0, 0),
                  err |-> PErr("Unexpected token: expected number",
                               expect_num_reported(toks, r))]

VOk(st, value) == [st |-> st, ok |-> TRUE, value |-> value, err |-> NoPErr]

VErr(st, err) == [st |-> st, ok |-> FALSE, value |-> VNil, err |-> err]

COk(st, command) == [st |-> st, ok |-> TRUE, command |-> command, err |-> NoPErr]

CErr(st, err) == [st |-> st, ok |-> FALSE, command |-> Op("Dup"), err |-> err]

\* the arms of parse_command that build a Command without operands
zero_arity_arms == {"Dup", "Swap", "Load", "Drop", "Query", "Info", "If", "Each", "Reduce",
    "Reverse", "Map", "Filter", "Call", "ToStr", "ToNum", "Add", "Sub", "Mul", "Div", "Mod",
    "Eq", "NotEq", "Greater", "GreaterEq", "Less", "LessEq", "And", "Or", "Not", "Concat",
    "Match", "Split", "Iota"}

\* the register checks of the ILoad arm, on the parsed number
reg_is_integer(reg) == f64_eq(reg, f64_trunc(reg))

reg_in_range(reg) == f64_as_u64(reg) \in 0..15

RECURSIVE parse_value(_, _), parse_command(_, _), parse_array(_, _, _), parse_function(_, _, _)

\* while !accept(RightSquare) { values.push(parse_value(state)?) }
parse_array(toks, st, values) ==
    LET a == accept(toks, st, TT("RightSquare"))
    IN  IF a.ok THEN VOk(a.st, VArray(values))
        ELSE LET r == parse_value(toks, a.st)
             IN  IF r.ok THEN parse_array(toks, r.st, Append(values, r.value))
                 ELSE VErr(r.st, r.err)

\* while !accept(RightCurly) { commands.push(parse_command(state)?) }
parse_function(toks, st, commands) ==
    LET a == accept(toks, st, TT("RightCurly"))
    IN  IF a.ok THEN VOk(a.st, VFunction(commands))
        ELSE LET r == parse_command(toks, a.st)
             IN  IF r.ok THEN parse_function(toks, r.st, Append(commands, r.command))
                 ELSE VErr(r.st, r.err)

parse_value(toks, st) ==
    LET a1 == accept_num(toks, st)
        a2 == accept_str(toks, a1.st)
        a3 == accept_bool(toks, a2.st)
        a4 == accept(toks, a3.st, TT("LeftSquare"))
        a5 == accept(toks, a4.st, TT("LeftCurly"))
        a6 == accept(toks, a5.st, TT("Nil"))
    IN  IF a1.ok
        THEN LET p == parse_f64(last(toks, a1.st).typ.text)
             IN  IF p.ok THEN VOk(a1.st, VNumber(p.val))
                 ELSE VErr(a1.st, PErr("Failed to parse number", NoTok))
        ELSE IF a2.ok THEN VOk(a2.st, VString(last(toks, a2.st).typ.text))
        ELSE IF a3.ok THEN VOk(a3.st, VBoolean(last(toks, a3.st).typ.val))
        ELSE IF a4.ok THEN parse_array(toks, a4.st, <<>>)
        ELSE IF a5.ok THEN parse_function(toks, a5.st, <<>>)
        ELSE IF a6.ok THEN VOk(a6.st, VNil)
        ELSE LET n == next(toks, a6.st)
             IN  VErr(n.st, PErr("Unexpected token", n.tok))

parse_command(toks, st) ==
    LET n == next(toks, st)
        t == n.tok
    IN  IF t.typ = TT("Push")
        THEN LET r == parse_value(toks, n.st)
             IN  IF r.ok THEN COk(r.st, Push(r.value)) ELSE CErr(r.st, r.err)
        ELSE IF t.typ = TT("ILoad")
        THEN LET e == expect_num(toks, n.st)
             IN  IF ~e.ok THEN CErr(e.st, e.err)
                 ELSE IF ~reg_is_integer(e.val)
                 THEN CErr(e.st, [PErr("Register is not an integer", last(toks, e.st))
                                    EXCEPT !.typ = NoTok.typ])
                 ELSE IF ~reg_in_range(e.val)
                 THEN CErr(e.st, [PErr("Register must be between 0-15", last(toks, e.st))
                                    EXCEPT !.typ = NoTok.typ])
                 ELSE LET r == parse_value(toks, e.st)
                      IN  IF r.ok THEN COk(r.st, ILoad(f64_as_u64(e.val), r.value))
                          ELSE CErr(r.st, r.err)
        ELSE IF t.typ.kind \in zero_arity_arms /\ t.typ = TT(t.typ.kind)
        THEN COk(n.st, Op(t.typ.kind))
        ELSE CErr(n.st, PErr("Unexpected token", t))

POk(st, commands) ==
    [ok |-> TRUE, commands |-> commands, err |-> NoPErr,
     ctok |-> st.ctok, trace |-> st.trace, panic |-> st.panic]

PFail(st, err) ==
    [ok |-> FALSE, commands |-> <<>>, err |-> err,
     ctok |-> st.ctok, trace |-> st.trace, panic |-> st.panic]

\* while !accept(Eof) { commands.push(parse_command(&state)?) }
RECURSIVE parse_loop(_, _, _)
parse_loop(toks, st, commands) ==
    LET a == accept(toks, st, TT("Eof"))
    IN  IF a.ok THEN POk(a.st, commands)
        ELSE LET r == parse_command(toks, a.st)
             IN  IF r.ok THEN parse_loop(toks, r.st, Append(commands, r.command))
                 ELSE PFail(r.st, r.err)

parse(toks) == parse_loop(toks, state0, <<>>)

(***************************************************************************)
(* generate.  A buffer is a sequence of bytes, each in 0..255.             *)
(***************************************************************************)
\* the declaration order of enum Value and of enum Command; under repr(u8)
\* the first byte of a value in memory is its variant's position, from 0
ValueVariants == <<"Nil", "Number", "String", "Boolean", "Function", "Array">>

CommandVariants == <<"Push", "Dup", "Swap", "ILoad", "Load", "Drop", "Query", "Info", "If",
    "Each", "Reduce", "Reverse", "Map", "Filter", "Call", "ToStr", "ToNum", "Add", "Sub",
    "Mul", "Div", "Mod", "Eq", "NotEq", "Greater", "GreaterEq", "Less", "LessEq", "And",
    "Or", "Not", "Concat", "Match", "Split", "Iota">>

\* mutant: Array declared before Function
value_discriminant_swapped(value) ==
    (CHOOSE k \in 1..6 :
        <<"Nil", "Number", "String", "Boolean", "Array", "Function">>[k] = value.v) - 1

value_discriminant(value) ==
    (CHOOSE k \in DOMAIN ValueVariants : ValueVariants[k] = value.v) - 1

command_discriminant(command) ==
    (CHOOSE k \in DOMAIN CommandVariants : CommandVariants[k] = command.c) - 1

\* put_u64_le: eight bytes, least significant first
put_u64_le(n) ==
    LET RECURSIVE le(_, _)
        le(m, k) == IF k = 0 THEN <<>> ELSE <<m % 256>> \o le(m \div 256, k - 1)
    IN  le(n, 8)

\* the printable ASCII characters, from code 32 (the grave accent, which
\* the model never draws, is spelled out)
AsciiPrintable == <<" ", "!", "\"", "#", "$", "%", "&", "'", "(", ")", "*", "+", ",", "-",
    ".", "/", "0", "1", "2", "3", "4", "5", "6", "7", "8", "9", ":", ";", "<", "=", ">",
    "?", "@", "A", "B", "C", "D", "E", "F", "G", "H", "I", "J", "K", "L", "M", "N", "O",
    "P", "Q", "R", "S", "T", "U", "V", "W", "X", "Y", "Z", "[", "\\", "]", "^", "_", "(grave accent)",
    "a", "b", "c", "d", "e", "f", "g", "h", "i", "j", "k", "l", "m", "n", "o", "p", "q",
    "r", "s", "t", "u", "v", "w", "x", "y", "z", "{", "|", "}", "~">>

\* the UTF-8 encoding of one character
utf8(c) ==
    CASE c = "\t" -> <<9>>
      [] c = "\n" -> <<10>>
      [] c = "\f" -> <<12>>
      [] c = "\r" -> <<13>>
      [] c = "é" -> <<195, 169>>
      [] OTHER -> <<31 + CHOOSE k \in DOMAIN AsciiPrintable : AsciiPrintable[k] = c>>

\* String::as_bytes
RECURSIVE as_bytes(_)
as_bytes(str) == IF str = <<>> THEN <<>> ELSE utf8(Head(str)) \o as_bytes(Tail(str))

\* mutant: the length in characters
str_len_chars(str) == Len(str)

\* String::len: the length in bytes
str_len(str) == Len(as_bytes(str))

RECURSIVE Pow2(_)
Pow2(k) == IF k = 0 THEN 1 ELSE 2 * Pow2(k - 1)

\* n as w bits, most significant first
RECURSIVE to_bits(_, _)
to_bits(n, w) == IF w = 0 THEN <<>> ELSE Append(to_bits(n \div 2, w - 1), n % 2)

\* a bit sequence plus one (the carry runs to the front)
RECURSIVE bits_inc(_)
bits_inc(bits) ==
    IF bits = <<>> THEN <<>>
    ELSE LET k == Len(bits)
         IN  IF bits[k] = 0 THEN [bits EXCEPT ![k] = 1]
             ELSE Append(bits_inc(SubSeq(bits, 1, k - 1)), 0)

\* the IEEE-754 binary64 nearest to the decimal x (ties to even), as 64 bits:
\* sign, 11 exponent bits, 52 fraction bits
f64_bits(x) ==
    IF x.num = 0 THEN <<IF x.neg THEN 1 ELSE 0>> \o [k \in 1..63 |-> 0]
    ELSE
    LET den == Pow10(x.scale)
        up  == CHOOSE k \in 0..31 : den * Pow2(k) <= x.num /\ den * Pow2(k + 1) > x.num
        dn  == CHOOSE k \in 0..31 : x.num * Pow2(k) >= den
                                    /\ \A j \in 0..(k - 1) : x.num * Pow2(j) < den
        e   == IF x.num >= den THEN up ELSE 0 - dn
        a   == IF x.num >= den THEN x.num ELSE x.num * Pow2(dn)
        b   == IF x.num >= den THEN den * Pow2(up) ELSE den
        \* the next n bits of r / b by long division, and the remainder
        RECURSIVE frac(_, _)
        frac(r, n) ==
            IF n = 1
            THEN IF 2 * r >= b THEN [bits |-> <<1>>, rem |-> 2 * r - b]
                 ELSE [bits |-> <<0>>, rem |-> 2 * r]
            ELSE LET f1 == frac(r, n \div 2)
                     f2 == frac(f1.rem, n - (n \div 2))
                 IN  [bits |-> f1.bits \o f2.bits, rem |-> f2.rem]
        f    == frac(a - b, 52)
        body == to_bits(e + 1023, 11) \o f.bits
        roundup == (2 * f.rem > b) \/ (2 * f.rem = b /\ f.bits[52] = 1)
    IN  <<IF x.neg THEN 1 ELSE 0>> \o (IF roundup THEN bits_inc(body) ELSE body)

\* f64::to_le_bytes
to_le_bytes(x) ==
    LET bits == f64_bits(x)
        byte(k) == LET RECURSIVE val(_, _)
                       val(j, acc) == IF j > 8 THEN acc
                                      ELSE val(j + 1, 2 * acc + bits[8 * k + j])
                   IN  val(1, 0)
    IN  [k \in 1..8 |-> byte(8 - k)]

RECURSIVE generate_value(_), generate(_), generate_values(_)

\* for value in values { buf.extend_from_slice(&generate_value(value)) }
generate_values(values) ==
    IF values = <<>> THEN <<>>
    ELSE generate_value(Head(values)) \o generate_values(Tail(values))

generate_value(value) ==
    <<value_discriminant(value)>> \o
    CASE value.v = "Nil" -> <<>>
      [] value.v = "Number" -> to_le_bytes(value.num)
      [] value.v = "String" -> put_u64_le(str_len(value.str)) \o as_bytes(value.str)
      [] value.v = "Boolean" -> <<IF value.b THEN 1 ELSE 0>>
      [] value.v = "Function" -> put_u64_le(Len(value.commands)) \o generate(value.commands)
      [] value.v = "Array" -> put_u64_le(Len(value.values)) \o generate_values(value.values)

generate_command(command) ==
    <<command_discriminant(command)>> \o
    CASE command.c = "Push" -> generate_value(command.value)
      [] command.c = "ILoad" -> <<command.reg>> \o generate_value(command.value)
      [] OTHER -> <<>>

generate(commands) ==
    IF commands = <<>> THEN <<>>
    ELSE generate_command(Head(commands)) \o generate(Tail(commands))

(***************************************************************************)
(* Inputs                                                                  *)
(***************************************************************************)
MaxLexFrags == 4
MaxFrags == 3
MaxToks == 4
MaxCmds == 2
MaxWords == 2

SeqsUpTo(S, n) == UNION {[1..k -> S] : k \in 0..n}

RECURSIVE Flatten(_)
Flatten(ss) == IF ss = <<>> THEN <<>> ELSE Head(ss) \o Flatten(Tail(ss))

\* source texts for the scanner: every concatenation of up to MaxLexFrags of
\* these pieces
LexFrags == {<<"-">>, <<"5">>, <<".">>, <<" ">>, <<CR>>, <<LF>>, <<QUOTE>>, <<";">>,
             <<"#", "!">>, <<"+">>, <<"[">>}

\* source texts for the whole pipeline: up to MaxFrags pieces, each a lexeme
\* and a space, a line feed or a lone quote
ProgFrags == {<<"p","u","s","h"," ">>, <<"d","u","p"," ">>, <<"5"," ">>,
              <<QUOTE,"s",QUOTE," ">>, <<"t","r","u","e"," ">>, <<"f","a","l","s","e"," ">>,
              <<"n","i","l"," ">>, <<"["," ">>, <<"]"," ">>, <<"{"," ">>, <<"}"," ">>,
              <<LF>>, <<QUOTE>>}

\* token vectors for the parser: up to MaxToks tokens, then the sentinel
TokTypes == {TT("Push"), TT("ILoad"), TT("Dup"), TTNumber(<<"1","5">>), TTNumber(<<"1","6">>),
             TTNumber(<<"1",".","5">>), TTNumber(<<"-","1">>), TTNumber(<<".">>),
             TTString(<<"s">>),
             TTBoolean(TRUE), TT("Nil"), TT("LeftSquare"), TT("RightSquare"),
             TT("LeftCurly"), TT("RightCurly")}

\* the k-th token sits on line 1, column k
Located(tts) == [k \in DOMAIN tts |-> Token(tts[k], Loc(1, k))]

\* command vectors for the encoder
GenNumbers == {F64(FALSE, 1, 0), F64(TRUE, 25, 1), F64(FALSE, 1, 1), F64(TRUE, 0, 0),
               F64(FALSE, 0, 0), F64(FALSE, 2, 0), F64(FALSE, 3, 0), F64(FALSE, 4, 0)}

GenStrings == {<<>>, <<"a", "é">>, <<"é">>, <<"\t", "~", " ">>}

GenLeaves == {VNil, VBoolean(TRUE), VBoolean(FALSE)}
                 \cup {VNumber(x) : x \in GenNumbers} \cup {VString(str) : str \in GenStrings}

GenZeroArity == {Op(CommandVariants[k]) : k \in DOMAIN CommandVariants \ {1, 4}}

\* [1 2 [3 4]]
GenNested == VArray(<<VNumber(F64(FALSE, 1, 0)), VNumber(F64(FALSE, 2, 0)),
                      VArray(<<VNumber(F64(FALSE, 3, 0)), VNumber(F64(FALSE, 4, 0))>>)>>)

GenArrays ==
    {VArray(vs) : vs \in SeqsUpTo({VNil, VNumber(F64(FALSE, 1, 1)), VString(<<"é">>)}, 2)}
        \cup {GenNested, VArray(<<VArray(<<>>)>>),
              VArray(<<VFunction(<<Op("Dup")>>), VBoolean(TRUE)>>)}

GenFunctions ==
    {VFunction(cs) : cs \in SeqsUpTo({Op("Dup"), Push(VNil), ILoad(15, VBoolean(TRUE))}, 2)}
        \cup {VFunction(<<Push(VFunction(<<Op("Iota")>>))>>),
              VFunction(<<Push(GenNested), Op("Add")>>)}

GenValues == GenLeaves \cup GenArrays \cup GenFunctions

\* every Command over those values, registers 0 and 15
GenCommands ==
    GenZeroArity \cup {Push(v) : v \in GenValues}
                 \cup {ILoad(r, v) : r \in {0, 15}, v \in GenValues}

\* the commands that vectors of more than one command are drawn from
GenCore == {Op("Dup"), Op("Swap"), Op("Iota"), Push(VNil), Push(VBoolean(FALSE)),
            Push(VNumber(F64(TRUE, 25, 1))), Push(VString(<<"a", "é">>)), Push(VString(<<>>)),
            Push(VArray(<<>>)), Push(VArray(<<VNil>>)), Push(GenNested),
            Push(VFunction(<<>>)), Push(VFunction(<<Op("Dup")>>)),
            Push(VFunction(<<Push(VNil), Op("Dup")>>)),
            ILoad(0, VNil), ILoad(1, VArray(<<VNil>>)), ILoad(15, VFunction(<<Op("Swap")>>))}

(***************************************************************************)
(* The pipeline as a state machine                                         *)
(***************************************************************************)
NoLexed == [ok |-> FALSE, tokens |-> <<>>, err |-> NoErr]

NoParsed == PFail(state0, NoPErr)

ShebangAct ==
    /\ pc = "start"
    /\ lex' = [lex_start EXCEPT !.i = shebang(chars, 0)]
    /\ pc' = "lex"
    /\ UNCHANGED <<chars, lexed, parsed, buf>>

\* one iteration of the main loop of tokenize, through branch b
LexStep(b) ==
    /\ pc = "lex"
    /\ lex.i < Len(chars)
    /\ lex_branch(At(chars, lex.i)) = b
    /\ LET t == lex_iter(chars, lex)
       IN  /\ lex' = t
           /\ IF t.err # NoErr
              THEN pc' = "lexerr" /\ lexed' = Err_tokens(t.err.msg, t.err.loc)
              ELSE pc' = "lex" /\ UNCHANGED lexed
    /\ UNCHANGED <<chars, parsed, buf>>

StepCR == LexStep("cr")
StepLF == LexStep("lf")
StepComment == LexStep("comment")
StepSpace == LexStep("space")
StepBracket == LexStep("bracket")
StepDigit == LexStep("digit")
StepDot == LexStep("dot")
StepMinus == LexStep("minus")
StepString == LexStep("string")
StepWord == LexStep("word")

LexEof ==
    /\ pc = "lex"
    /\ lex.i >= Len(chars)
    /\ lexed' = lex_finish(lex)
    /\ pc' = "lexed"
    /\ UNCHANGED <<chars, lex, parsed, buf>>

\* tokenize as one call
TokenizeAct ==
    /\ pc = "source"
    /\ lexed' = tokenize(chars)
    /\ pc' = IF lexed'.ok THEN "lexed" ELSE "lexerr"
    /\ UNCHANGED <<chars, lex, parsed, buf>>

ParseAct ==
    /\ pc = "lexed"
    /\ parsed' = parse(lexed.tokens)
    /\ pc' = IF parsed'.ok THEN "parsed" ELSE "parseerr"
    /\ UNCHANGED <<chars, lex, lexed, buf>>

GenerateAct ==
    /\ pc = "parsed"
    /\ buf' = generate(parsed.commands)
    /\ pc' = "generated"
    /\ UNCHANGED <<chars, lex, lexed, parsed>>

\* the whole pipeline on a program text
Init ==
    /\ \E fs \in SeqsUpTo(ProgFrags, MaxFrags) : chars = Flatten(fs)
    /\ pc = "source"
    /\ lex = lex_start
    /\ lexed = NoLexed
    /\ parsed = NoParsed
    /\ buf = <<>>

Next == TokenizeAct \/ ParseAct \/ GenerateAct

Spec == Init /\ [][Next]_vars

\* tokenize, iteration by iteration
InitLex ==
    /\ \E fs \in SeqsUpTo(LexFrags, MaxLexFrags) : chars = Flatten(fs)
    /\ pc = "start"
    /\ lex = lex_start
    /\ lexed = NoLexed
    /\ parsed = NoParsed
    /\ buf = <<>>

NextLex ==
    \/ ShebangAct
    \/ StepCR \/ StepLF \/ StepComment \/ StepSpace \/ StepBracket
    \/ StepDigit \/ StepDot \/ StepMinus \/ StepString \/ StepWord
    \/ LexEof

SpecLex == InitLex /\ [][NextLex]_vars

\* parse on token vectors
InitParse ==
    /\ chars = <<>>
    /\ pc = "lexed"
    /\ lex = lex_start
    /\ \E tts \in SeqsUpTo(TokTypes, MaxToks) :
          lexed = Ok_tokens(Located(Append(tts, TT("Eof"))))
    /\ parsed = NoParsed
    /\ buf = <<>>

NextParse == ParseAct

SpecParse == InitParse /\ [][NextParse]_vars

(***************************************************************************)
(* Claims about tokenize, under SpecLex                                    *)
(***************************************************************************)
\* the scan stands at character c: the main loop is about to branch on it
ScanAt(c) == pc = "lex" /\ lex.i < Len(chars) /\ At(chars, lex.i) = c

LastOf(seq) == seq[Len(seq)]

C5_LaterQuote == \E k \in (lex.i + 1)..(Len(chars) - 1) : At(chars, k) = QUOTE

C5_Step ==
    /\ (pc' = "lexerr") <=> (ScanAt(QUOTE) /\ ~C5_LaterQuote)
    /\ (pc' = "lexerr") =>
          /\ ~lexed'.ok
          /\ lexed'.tokens = <<>>
          /\ lexed'.err = [msg |-> "Unterminated string", loc |-> Loc(lex.line, lex.col)]
    /\ (pc' = "lexed") => lexed'.ok /\ LastOf(lexed'.tokens).typ = TT("Eof")
    /\ (pc = "lex" /\ pc' = "lex") => lex'.i > lex.i
    /\ (pc = "lex" /\ lex.i >= Len(chars)) => pc' = "lexed"

\* C5: tokenize fails exactly when the scan reaches a quote that starts a
\* string literal and no later quote follows before the end of input; it then
\* returns only the error (no tokens, whatever was scanned before), and in
\* every other case the scan moves forward until it returns a token sequence
C5_FailsIffUnterminated == [][C5_Step]_vars

\* tokens were scanned, then an unterminated string discarded them
C5_Witness == pc = "lexerr" /\ lex.tokens # <<>> /\ lexed.tokens = <<>> /\ ~lexed.ok

C7_NumChars == Digits \cup {"."}

\* how many characters after position k continue a number: the longest run
\* of digits and points with at most one point
C7_Run(k) ==
    LET fits(n) == /\ \A j \in 1..n : At(chars, k + j) \in C7_NumChars
                   /\ Cardinality({j \in 1..n : At(chars, k + j) = "."}) <= 1
    IN  CHOOSE n \in 0..(Len(chars) - k - 1) :
            fits(n) /\ \A m \in (n + 1)..(Len(chars) - k - 1) : ~fits(m)

\* how many characters after position k continue a word
C7_WordRun(k) ==
    LET fits(n) == \A j \in 1..n : /\ At(chars, k + j) \notin WhiteSpace
                                   /\ At(chars, k + j) \notin {QUOTE, "[", "]", "{", "}"}
    IN  CHOOSE n \in 0..(Len(chars) - k - 1) :
            fits(n) /\ \A m \in (n + 1)..(Len(chars) - k - 1) : ~fits(m)

C7_Step ==
    ScanAt("-") =>
        LET k == lex.i
            here == Loc(lex.line, lex.col)
        IN  IF k + 1 < Len(chars) /\ At(chars, k + 1) \in C7_NumChars
            THEN /\ lex'.tokens = Append(lex.tokens,
                        Token(TTNumber(SubSeq(chars, k + 1, k + 1 + C7_Run(k))), here))
                 /\ lex'.i = k + 1 + C7_Run(k)
            ELSE /\ lex'.tokens = IF C7_WordRun(k) = 0
                                  THEN Append(lex.tokens, Token(TT("Sub"), here))
                                  ELSE lex.tokens
                 /\ lex'.i = k + 1 + C7_WordRun(k)

\* C7: at a `-` immediately followed by a digit or `.`, the step emits exactly
\* one Number token whose text is the `-` and the contiguous digits with at
\* most one point; at any other `-` the word scan runs, which emits Sub for a
\* `-` standing alone and never a Number
C7_MinusDisambiguation == [][C7_Step]_vars

\* a lone `-` gave Sub and `-.5` gave one Number, in one scan
C7_Witness ==
    /\ \E k \in DOMAIN lex.tokens : lex.tokens[k].typ = TT("Sub")
    /\ \E k \in DOMAIN lex.tokens : lex.tokens[k].typ = TTNumber(<<"-", ".", "5">>)

\* the line breaks among the first n characters: each CR, and each LF that
\* does not directly follow a CR
C10_Breaks(n) ==
    Cardinality({j \in 0..(n - 1) :
        \/ At(chars, j) = CR
        \/ At(chars, j) = LF /\ (j = 0 \/ At(chars, j - 1) # CR)})

C10_Step ==
    /\ (pc = "lex" /\ pc' = "lex" /\ Len(lex'.tokens) > Len(lex.tokens)) =>
          LastOf(lex'.tokens).loc.line = 1 + C10_Breaks(lex.i)
    /\ (pc' = "lexed") =>
          LastOf(lexed'.tokens).loc.line = 1 + C10_Breaks(Len(chars))

\* C10: every emitted token's line is 1 plus the number of line breaks (CR,
\* LF, or CRLF counted once) before the token's first character, wherever
\* those line breaks stand
C10_LineCounts == [][C10_Step]_vars

\* parse(tokenize(text)): the outcome of the two stages run in a row
C9_Assemble(cs) ==
    LET l == tokenize(cs)
    IN  IF l.ok THEN parse(l.tokens) ELSE PFail(state0, PErr(l.err.msg, NoTok))

\* comment texts without CR or LF, and the line terminators
C9_Comments == {<<>>, <<" ", "n", "o", "t", "e">>, <<QUOTE, ";", "[", "p", "u", "s", "h">>}

C9_Terminators == {<<CR>>, <<LF>>, <<CR, LF>>}

C9_Shebang == Len(chars) >= 2 /\ chars[1] = "#" /\ chars[2] = "!"

\* C9: for a source text P that does not begin with `#!`, a comment line put
\* before P changes nothing: the same commands when P parses, failure when P
\* fails to tokenize or to parse
C9_CommentTransparent ==
    (pc \in {"lexerr", "generated", "parseerr"} /\ ~C9_Shebang) =>
        \A c \in C9_Comments, nl \in C9_Terminators :
            LET r == C9_Assemble(<<";">> \o c \o nl \o chars)
            IN  /\ r.ok = (pc = "generated")
                /\ r.commands = parsed.commands

\* P parsed to two commands, one with an operand, and so did the commented text
C9_Witness ==
    /\ pc = "generated"
    /\ Len(parsed.commands) = 2
    /\ \E k \in 1..2 : parsed.commands[k].c = "Push"
    /\ C9_Assemble(<<";", "x", LF>> \o chars).commands = parsed.commands

(***************************************************************************)
(* Claims about tokenize then parse, under Spec                            *)
(***************************************************************************)
C2_Source(value) == <<"p", "u", "s", "h", " ">> \o value \o <<" ">>

\* one source text per alternative of the Value grammar, with the Value it
\* stands for
C2_Alternatives == {
    [text |-> C2_Source(<<"5">>), value |-> VNumber(F64(FALSE, 5, 0))],
    [text |-> C2_Source(<<QUOTE, "s", QUOTE>>), value |-> VString(<<"s">>)],
    [text |-> C2_Source(<<"t", "r", "u", "e">>), value |-> VBoolean(TRUE)],
    [text |-> C2_Source(<<"f", "a", "l", "s", "e">>), value |-> VBoolean(FALSE)],
    [text |-> C2_Source(<<"n", "i", "l">>), value |-> VNil],
    [text |-> C2_Source(<<"[", " ", "]">>), value |-> VArray(<<>>)],
    [text |-> C2_Source(<<"[", " ", "5", " ", "]">>),
     value |-> VArray(<<VNumber(F64(FALSE, 5, 0))>>)],
    [text |-> C2_Source(<<"{", " ", "}">>), value |-> VFunction(<<>>)],
    [text |-> C2_Source(<<"{", " ", "d", "u", "p", " ", "}">>),
     value |-> VFunction(<<Op("Dup")>>)]}

\* C2: tokenize then parse accepts every alternative of the Value grammar
\* after `push` (number, string, true, false, nil, array, function) and
\* yields Push of the corresponding Value
C2_PushAcceptsEveryValue ==
    \A alt \in C2_Alternatives :
        (chars = alt.text /\ pc \notin {"source", "lexed"}) =>
            /\ pc \in {"parsed", "generated"}
            /\ parsed.commands = <<Push(alt.value)>>

(***************************************************************************)
(* Claims about parse, under SpecParse                                     *)
(***************************************************************************)
\* the Number text n denotes the integer r
C1_Denotes(n, r) ==
    LET p == parse_f64(n)
    IN  p.ok /\ p.val.scale = 0 /\ p.val.num = r /\ (p.val.neg => r = 0)

\* C1: the Number token after an `iload` token must denote an integer r with
\* 0 <= r < 16 or parse fails (a negative register fails), and a successful
\* parse yields ILoad(r, value) with exactly that r
C1_RegisterBound ==
    (pc = "parsed") =>
        /\ \A k \in 1..(Len(lexed.tokens) - 1) :
              (lexed.tokens[k].typ = TT("ILoad") /\ lexed.tokens[k + 1].typ.kind = "Number")
                  => \E r \in 0..15 : C1_Denotes(lexed.tokens[k + 1].typ.text, r)
        /\ (lexed.tokens[1].typ = TT("ILoad")) =>
              /\ parsed.commands[1].c = "ILoad"
              /\ C1_Denotes(lexed.tokens[2].typ.text, parsed.commands[1].reg)

\* the position of the token read last
C6_LastRead ==
    LET reads == {j \in DOMAIN parsed.trace : parsed.trace[j].op = "next"}
    IN  parsed.trace[CHOOSE j \in reads : \A m \in reads : m <= j].ctok

\* C6: when parse fails because a token matches no production, it stops at
\* that token, returns no commands, and the error names that token and its
\* location, at a command position, at a value position and at the register
\* position after `iload` alike
C6_ErrorNamesOffender ==
    (pc = "parseerr"
        /\ parsed.err.msg \in {"Unexpected token", "Unexpected token: expected number"}) =>
        /\ parsed.commands = <<>>
        /\ parsed.err.typ = lexed.tokens[C6_LastRead].typ
        /\ parsed.err.loc = lexed.tokens[C6_LastRead].loc

RECURSIVE C8_ValueTokens(_), C8_CommandTokens(_), C8_ValuesTokens(_), C8_CommandsTokens(_)

C8_ValuesTokens(values) ==
    IF values = <<>> THEN <<>>
    ELSE C8_ValueTokens(Head(values)) \o C8_ValuesTokens(Tail(values))

C8_CommandsTokens(commands) ==
    IF commands = <<>> THEN <<>>
    ELSE C8_CommandTokens(Head(commands)) \o C8_CommandsTokens(Tail(commands))

\* the kinds of the tokens a Value is written with
C8_ValueTokens(value) ==
    CASE value.v = "Array" ->
            <<"LeftSquare">> \o C8_ValuesTokens(value.values) \o <<"RightSquare">>
      [] value.v = "Function" ->
            <<"LeftCurly">> \o C8_CommandsTokens(value.commands) \o <<"RightCurly">>
      [] OTHER -> <<value.v>>

\* the kinds of the tokens a Command is written with
C8_CommandTokens(command) ==
    CASE command.c = "Push" -> <<"Push">> \o C8_ValueTokens(command.value)
      [] command.c = "ILoad" -> <<"ILoad", "Number">> \o C8_ValueTokens(command.value)
      [] OTHER -> <<command.c>>

\* the reads that were not taken back: no rewind follows them
C8_Consumed ==
    {j \in DOMAIN parsed.trace :
        /\ parsed.trace[j].op = "next"
        /\ (j = Len(parsed.trace) \/ parsed.trace[j + 1].op # "rewind")}

\* C8: on a token vector ending in its one sentinel that parses, the cursor
\* never leaves the vector, steps back only by one and only directly after
\* the read of a lookahead, never steps back over a consumed token, ends
\* just past the sentinel, and every token is consumed exactly once: the
\* commands returned, written out again, are the tokens in order
C8_Completeness ==
    (pc = "parsed") =>
        LET tr == parsed.trace
            n  == Len(lexed.tokens)
        IN  /\ ~parsed.panic
            /\ \A j \in DOMAIN tr :
                  /\ tr[j].ctok \in 0..n
                  /\ tr[j].op = "next" => tr[j].ctok \in 1..n
                  /\ tr[j].op = "rewind" =>
                        j > 1 /\ tr[j - 1].op = "next" /\ tr[j].ctok = tr[j - 1].ctok - 1
            /\ parsed.ctok = n
            /\ \A k \in 1..n : Cardinality({j \in C8_Consumed : tr[j].ctok = k}) = 1
            /\ \A j1, j2 \in C8_Consumed : j1 < j2 => tr[j1].ctok < tr[j2].ctok
            /\ C8_CommandsTokens(parsed.commands) \o <<"Eof">>
                  = [k \in 1..n |-> lexed.tokens[k].typ.kind]

\* a parse that looked ahead, rewound and went down into an array
C8_Witness ==
    /\ pc = "parsed"
    /\ \E j \in DOMAIN parsed.trace : parsed.trace[j].op = "rewind"
    /\ \E k \in DOMAIN parsed.commands :
          /\ parsed.commands[k].c = "Push"
          /\ parsed.commands[k].value.v = "Array"
          /\ parsed.commands[k].value.values # <<>>

(***************************************************************************)
(* generate on command vectors                                             *)
(***************************************************************************)
InitGen ==
    /\ chars = <<>>
    /\ pc = "parsed"
    /\ lex = lex_start
    /\ lexed = NoLexed
    /\ \/ \E cs \in SeqsUpTo(GenCore, MaxCmds) : parsed = POk(state0, cs)
       \/ \E c \in GenCommands : parsed = POk(state0, <<c>>)
    /\ buf = <<>>

NextGen == GenerateAct

SpecGen == InitGen /\ [][NextGen]_vars

(***************************************************************************)
(* Claims about generate, under SpecGen                                    *)
(***************************************************************************)
\* the documented tag of each variant
C3_ValueTable == {<<"Nil", 0>>, <<"Number", 1>>, <<"String", 2>>, <<"Boolean", 3>>,
                  <<"Function", 4>>, <<"Array", 5>>}

C3_CommandTable == {<<"Push", 0>>, <<"Dup", 1>>, <<"Swap", 2>>, <<"ILoad", 3>>, <<"Load", 4>>,
    <<"Drop", 5>>, <<"Query", 6>>, <<"Info", 7>>, <<"If", 8>>, <<"Each", 9>>, <<"Reduce", 10>>,
    <<"Reverse", 11>>, <<"Map", 12>>, <<"Filter", 13>>, <<"Call", 14>>, <<"ToStr", 15>>,
    <<"ToNum", 16>>, <<"Add", 17>>, <<"Sub", 18>>, <<"Mul", 19>>, <<"Div", 20>>, <<"Mod", 21>>,
    <<"Eq", 22>>, <<"NotEq", 23>>, <<"Greater", 24>>, <<"GreaterEq", 25>>, <<"Less", 26>>,
    <<"LessEq", 27>>, <<"And", 28>>, <<"Or", 29>>, <<"Not", 30>>, <<"Concat", 31>>,
    <<"Match", 32>>, <<"Split", 33>>, <<"Iota", 34>>}

C3_ValueTag(name) == CHOOSE n \in 0..5 : <<name, n>> \in C3_ValueTable

C3_CommandTag(name) == CHOOSE n \in 0..34 : <<name, n>> \in C3_CommandTable

RECURSIVE C3_ValueOk(_), C3_CommandOk(_)

\* the encoding of the value, and of everything nested in it, starts with
\* the documented tag
C3_ValueOk(value) ==
    /\ generate_value(value)[1] = C3_ValueTag(value.v)
    /\ value.v = "Array" => \A k \in DOMAIN value.values : C3_ValueOk(value.values[k])
    /\ value.v = "Function" => \A k \in DOMAIN value.commands : C3_CommandOk(value.commands[k])

C3_CommandOk(command) ==
    /\ generate(<<command>>)[1] = C3_CommandTag(command.c)
    /\ command.c \in {"Push", "ILoad"} => C3_ValueOk(command.value)

\* C3: the first byte of the encoding of every Value and every Command is the
\* variant's position in its enumeration, counted from 0 (Nil=0 .. Array=5,
\* Push=0 .. Iota=34), whatever the payload and however deep it is nested
C3_TagIdentity ==
    (pc = "generated") =>
        /\ \A k \in DOMAIN parsed.commands : C3_CommandOk(parsed.commands[k])
        /\ parsed.commands # <<>> => buf[1] = C3_CommandTag(parsed.commands[1].c)

\* a function inside a function was encoded
C3_Witness ==
    /\ pc = "generated"
    /\ parsed.commands = <<Push(VFunction(<<Push(VFunction(<<Op("Iota")>>))>>))>>
    /\ buf[1] = 0 /\ buf[2] = 4 /\ buf[11] = 0 /\ buf[12] = 4 /\ buf[21] = 34

\* the characters and numbers the decoder knows
C4_Chars == {AsciiPrintable[k] : k \in DOMAIN AsciiPrintable} \cup {"\t", "\n", "\f", "\r", "é"}

C4_Fail == [ok |-> FALSE, rest |-> <<>>]

\* an 8-byte little-endian header (counts and lengths above 2^24 are beyond
\* every buffer of the model)
C4_U64(bytes) ==
    IF Len(bytes) >= 8 /\ \A k \in 4..8 : bytes[k] = 0
    THEN [ok |-> TRUE, n |-> bytes[1] + 256 * bytes[2] + 65536 * bytes[3],
          rest |-> SubSeq(bytes, 9, Len(bytes))]
    ELSE [ok |-> FALSE, n |-> 0, rest |-> <<>>]

\* UTF-8 bytes back to characters: one byte below 128, else two
RECURSIVE C4_Utf8(_)
C4_Utf8(bytes) ==
    IF bytes = <<>> THEN [ok |-> TRUE, str |-> <<>>]
    ELSE LET w == IF bytes[1] < 128 THEN 1 ELSE 2
             unit == SubSeq(bytes, 1, w)
             known == Len(bytes) >= w /\ \E c \in C4_Chars : utf8(c) = unit
             tl == C4_Utf8(SubSeq(bytes, w + 1, Len(bytes)))
         IN  IF known /\ tl.ok
             THEN [ok |-> TRUE, str |-> <<CHOOSE c \in C4_Chars : utf8(c) = unit>> \o tl.str]
             ELSE [ok |-> FALSE, str |-> <<>>]

RECURSIVE C4_Value(_), C4_Command(_), C4_Values(_, _, _), C4_Commands(_, _, _)

\* exactly n values, one after the other
C4_Values(bytes, n, acc) ==
    IF n = 0 THEN [ok |-> TRUE, values |-> acc, rest |-> bytes]
    ELSE LET d == C4_Value(bytes)
         IN  IF d.ok THEN C4_Values(d.rest, n - 1, Append(acc, d.value)) ELSE C4_Fail

\* exactly n commands, one after the other
C4_Commands(bytes, n, acc) ==
    IF n = 0 THEN [ok |-> TRUE, commands |-> acc, rest |-> bytes]
    ELSE LET d == C4_Command(bytes)
         IN  IF d.ok THEN C4_Commands(d.rest, n - 1, Append(acc, d.command)) ELSE C4_Fail

\* a Value by the documented layout: the tag byte, then the payload
C4_Value(bytes) ==
    IF bytes = <<>> THEN C4_Fail
    ELSE LET tag == bytes[1]
             body == Tail(bytes)
             hdr == C4_U64(body)
         IN  CASE tag = 0 -> [ok |-> TRUE, value |-> VNil, rest |-> body]
               [] tag = 1 ->
                    IF Len(body) >= 8
                       /\ \E x \in GenNumbers : to_le_bytes(x) = SubSeq(body, 1, 8)
                    THEN [ok |-> TRUE,
                          value |-> VNumber(CHOOSE x \in GenNumbers :
                                                to_le_bytes(x) = SubSeq(body, 1, 8)),
                          rest |-> SubSeq(body, 9, Len(body))]
                    ELSE C4_Fail
               [] tag = 2 ->
                    IF hdr.ok /\ Len(hdr.rest) >= hdr.n
                    THEN LET u == C4_Utf8(SubSeq(hdr.rest, 1, hdr.n))
                         IN  IF u.ok
                             THEN [ok |-> TRUE, value |-> VString(u.str),
                                   rest |-> SubSeq(hdr.rest, hdr.n + 1, Len(hdr.rest))]
                             ELSE C4_Fail
                    ELSE C4_Fail
               [] tag = 3 ->
                    IF body # <<>> /\ body[1] \in {0, 1}
                    THEN [ok |-> TRUE, value |-> VBoolean(body[1] = 1), rest |-> Tail(body)]
                    ELSE C4_Fail
               [] tag = 4 ->
                    IF hdr.ok
                    THEN LET d == C4_Commands(hdr.rest, hdr.n, <<>>)
                         IN  IF d.ok
                             THEN [ok |-> TRUE, value |-> VFunction(d.commands), rest |-> d.rest]
                             ELSE C4_Fail
                    ELSE C4_Fail
               [] tag = 5 ->
                    IF hdr.ok
                    THEN LET d == C4_Values(hdr.rest, hdr.n, <<>>)
                         IN  IF d.ok
                             THEN [ok |-> TRUE, value |-> VArray(d.values), rest |-> d.rest]
                             ELSE C4_Fail
                    ELSE C4_Fail
               [] OTHER -> C4_Fail

\* a Command by the documented layout
C4_Command(bytes) ==
    IF bytes = <<>> \/ ~(\E e \in C3_CommandTable : e[2] = bytes[1]) THEN C4_Fail
    ELSE LET name == (CHOOSE e \in C3_CommandTable : e[2] = bytes[1])[1]
             body == Tail(bytes)
         IN  CASE name = "Push" ->
                    LET d == C4_Value(body)
                    IN  IF d.ok THEN [ok |-> TRUE, command |-> Push(d.value), rest |-> d.rest]
                        ELSE C4_Fail
               [] name = "ILoad" ->
                    IF body = <<>> THEN C4_Fail
                    ELSE LET d == C4_Value(Tail(body))
                         IN  IF d.ok
                             THEN [ok |-> TRUE, command |-> ILoad(body[1], d.value),
                                   rest |-> d.rest]
                             ELSE C4_Fail
               [] OTHER -> [ok |-> TRUE, command |-> Op(name), rest |-> body]

\* a whole buffer: commands until it is used up
RECURSIVE C4_Decode(_, _)
C4_Decode(bytes, acc) ==
    IF bytes = <<>> THEN [ok |-> TRUE, commands |-> acc]
    ELSE LET d == C4_Command(bytes)
         IN  IF d.ok THEN C4_Decode(d.rest, Append(acc, d.command))
             ELSE [ok |-> FALSE, commands |-> acc]

\* C4: decoding generate(commands) by the documented layout gives back the
\* same commands and uses up the whole buffer, so different command vectors
\* have different encodings
C4_RoundTrip ==
    (pc = "generated") => C4_Decode(buf, <<>>) = [ok |-> TRUE, commands |-> parsed.commands]

\* [1 2 [3 4]] was encoded and decoded
C4_Witness ==
    /\ pc = "generated"
    /\ Push(GenNested) \in {parsed.commands[k] : k \in DOMAIN parsed.commands}
    /\ Len(parsed.commands) > 1
    /\ C4_Decode(buf, <<>>).commands = parsed.commands


(***************************************************************************)
(* The pipeline on programs written with the printed keywords              *)
(***************************************************************************)
\* the words of a program, one space between two of them
RECURSIVE JoinWords(_)
JoinWords(ws) ==
    IF ws = <<>> THEN <<>>
    ELSE IF Len(ws) = 1 THEN ws[1]
    ELSE ws[1] \o <<" ">> \o JoinWords(Tail(ws))

Keywords == {command_names[k][2] : k \in DOMAIN command_names}

InitWords ==
    /\ \E ws \in SeqsUpTo(Keywords, MaxWords) : chars = JoinWords(ws)
    /\ pc = "source"
    /\ lex = lex_start
    /\ lexed = NoLexed
    /\ parsed = NoParsed
    /\ buf = <<>>

NextWords == TokenizeAct \/ ParseAct \/ GenerateAct

SpecWords == InitWords /\ [][NextWords]_vars

\* the Command variants that carry no payload
C11_ZeroPayload == {command_names[k][1] : k \in DOMAIN command_names} \ {"Push", "ILoad"}

C11_Kinds == [k \in DOMAIN lexed.tokens |-> lexed.tokens[k].typ]

\* C11: for each of the 33 Command variants other than Push and ILoad,
\* tokenizing its printed keyword gives exactly one token of that kind and
\* then the end-of-file token, and parsing those tokens gives exactly that
\* one Command; tokenize and parse do not fail on it
C11_KeywordsWritable ==
    \A name \in C11_ZeroPayload :
        chars = get_command_name(Op(name)) =>
            /\ pc \notin {"lexerr", "parseerr"}
            /\ pc \in {"lexed", "parsed", "generated"} =>
                   C11_Kinds = <<TT(name), TT("Eof")>>
            /\ pc \in {"parsed", "generated"} => parsed.commands = <<Op(name)>>

============================================================================
